---- MODULE Spec2Model ----
(***************************************************************************)
(* Model of RaspberryPi.Server/main.py: the traffic light, its three kinds *)
(* of mode (FixedMode, SequenceMode, UdpListenerMode) and ModesController. *)
(* Threads: the main thread (controller.start()), the button's callback    *)
(* thread (switch_mode), one worker per SequenceMode, and the listener and *)
(* update-timeout workers of the UdpListenerMode.  One step of the model   *)
(* is one statement of one thread; time is abstracted, so a bounded wait   *)
(* may time out whenever its event is not set.                             *)
(***************************************************************************)
EXTENDS Integers, Sequences, FiniteSets, TLC

\* ---- bounds of the model ----
MaxPresses == 3
MaxModes == 3

\* ---- class Lights(Enum): members are identified with their values ----
NONE == 0
GREEN == 1
AMBER == 2
AMBER_GREEN == 3
RED == 4
RED_GREEN == 5
RED_AMBER == 6
ALL == 7

LightsValues == {NONE, GREEN, AMBER, AMBER_GREEN, RED, RED_GREEN, RED_AMBER, ALL}

\* the member names of the enumeration, in the order of their definition
LightsNames == {"NONE", "GREEN", "AMBER", "AMBER_GREEN",
                "RED", "RED_GREEN", "RED_AMBER", "ALL"}

\* faulty variant of the enumeration: the members are numbered from 1
ValueOfAuto(n) ==
    CASE n = "NONE" -> 1 [] n = "GREEN" -> 2 [] n = "AMBER" -> 3
      [] n = "AMBER_GREEN" -> 4 [] n = "RED" -> 5 [] n = "RED_GREEN" -> 6
      [] n = "RED_AMBER" -> 7 [] n = "ALL" -> 8

\* member.value: the value each member is defined with
ValueOf(n) ==
    CASE n = "NONE" -> NONE [] n = "GREEN" -> GREEN [] n = "AMBER" -> AMBER
      [] n = "AMBER_GREEN" -> AMBER_GREEN [] n = "RED" -> RED
      [] n = "RED_GREEN" -> RED_GREEN [] n = "RED_AMBER" -> RED_AMBER
      [] n = "ALL" -> ALL

\* Lights(v): the member whose value is v; Enum raises ValueError when no
\* member has that value
LightsByValue(v) ==
    IF \E n \in LightsNames : ValueOf(n) = v
    THEN CHOOSE n \in LightsNames : ValueOf(n) = v
    ELSE "ValueError"

\* faulty variant of v & mask: the mask is taken whenever v reaches it
BitAndReached(v, mask) == IF v >= mask THEN mask ELSE 0

\* v & mask for a one-bit mask 2^k, as the integer Python computes
BitAnd(v, mask) == IF (v \div mask) % 2 = 1 THEN mask ELSE 0

\* faulty variant of TrafficLight.set: the amber LED gets the green bit
SetAmberFromGreen(v) ==
    [red   |-> BitAnd(v, 4) # 0,
     amber |-> BitAnd(v, 1) # 0,
     green |-> BitAnd(v, 1) # 0]

\* TrafficLight.set: each LED is lit iff the value written is non-zero
Set(v) ==
    [red   |-> BitAnd(v, 4) # 0,
     amber |-> BitAnd(v, 2) # 0,
     green |-> BitAnd(v, 1) # 0]

\* gpiozero LEDs are off after construction
LedsOff == [red |-> FALSE, amber |-> FALSE, green |-> FALSE]

\* ---- the modes a list may hold ----
Fixed(v) == [kind |-> "Fixed", lights |-> v, gen |-> "none", l |-> <<>>]
Sequence(g, s) == [kind |-> "Sequence", lights |-> NONE, gen |-> g, l |-> s]
UdpListener == [kind |-> "Udp", lights |-> NONE, gen |-> "none", l |-> <<>>]

VARIABLES
    modes,          \* ModesController._modes (fixed at construction)
    i,              \* ModesController._i
    traffic_light,  \* the three LEDs of the TrafficLight
    lastSet,        \* history: the value last passed to TrafficLight.set
    ctlPc,          \* position of the main thread and of the button thread
    mainIdx,        \* the value of self._i that start() has read
    presses,        \* number of button presses delivered so far
    on_activated,   \* SequenceMode._on_activated, per mode index
    seqPc,          \* position of each SequenceMode worker
    seqPos,         \* looped_sequence's i, per mode index
    seqWrites,      \* history: set calls of each worker so far, modulo len(l)
    staleSets,      \* history: set calls of each worker since exit(), event clear
    exitInPause,    \* history: the last exit() came while the worker slept
    lights,         \* UdpListenerMode._lights
    is_active,      \* UdpListenerMode._is_active
    is_active_lock, \* holder of UdpListenerMode._is_active_lock, or "none"
    on_updated,     \* UdpListenerMode._on_updated
    lsnPc,          \* position of the listener thread
    lsnMsg,         \* the listener's local msg: the datagram received last
    toPc,           \* position of the update-timeout thread
    cmd,            \* the valid command value the sender of this run transmits
    calls,          \* history: the enter()/exit() calls made on the modes
    pressedEarly,   \* history: a press was delivered before start() returned
    lastValid,      \* history: value of the last valid datagram received
    lastValidInactive, \* history: received while inactive, not activated since
    lastStore,      \* history: who wrote lights last
    fallbacks       \* history: fallback outputs since the last valid datagram

vars == <<modes, i, traffic_light, lastSet, ctlPc, mainIdx, presses, on_activated,
          seqPc, seqPos, seqWrites, staleSets, exitInPause, lights, is_active, is_active_lock, on_updated,
          lsnPc, lsnMsg, toPc, cmd, calls, pressedEarly, lastValid,
          lastValidInactive, lastStore, fallbacks>>

ctlVars == <<modes, i, ctlPc, mainIdx, presses, calls, pressedEarly, cmd>>
seqVars == <<on_activated, seqPc, seqPos, seqWrites, staleSets, exitInPause>>
udpVars == <<lights, is_active, is_active_lock, on_updated, lsnPc, lsnMsg, toPc>>
udpHist == <<lastValid, lastValidInactive, lastStore, fallbacks>>

N == Len(modes)
Mode(m) == modes[m + 1]
HasUdp == \E m \in 0..(N - 1) : Mode(m).kind = "Udp"

\* ---- mode lists the model is started with ----
FixedLights == {NONE, RED_GREEN, ALL}

RECURSIVE ListsOver(_, _)
ListsOver(S, n) ==
    IF n = 0 THEN {<<>>}
    ELSE {Append(s, x) : s \in ListsOver(S, n - 1), x \in S}

\* every list of 1..MaxModes Fixed modes
FixedLists ==
    UNION {ListsOver({Fixed(v) : v \in FixedLights}, n) : n \in 1..MaxModes}

\* the network mode first, as main builds it, followed by a Fixed mode
UdpLists == {<<UdpListener, Fixed(ALL)>>}

\* the steps of a short looping sequence, as (lights, interval in ms)
ShortLoop == <<<<RED, 5000>>, <<RED_AMBER, 1500>>, <<GREEN, 5000>>>>

\* lists of Sequence and Fixed modes: a looping and a random sequence
SeqLists ==
    {<<Sequence("looped", ShortLoop), Fixed(ALL), Sequence("random", <<>>)>>,
     <<Sequence("random", <<>>), Fixed(NONE)>>}

MixedLists ==
    {<<UdpListener, Sequence("looped", ShortLoop), Fixed(ALL)>>,
     <<Sequence("random", <<>>), Fixed(NONE)>>}

\* ---- state after construction (main.py:133-153) ----
InitWith(lists, cmds) ==
    /\ modes \in lists
    /\ cmd \in cmds
    /\ i = 0
    /\ traffic_light = LedsOff
    /\ lastSet = -1
    /\ ctlPc = [t \in {"main", "button"} |-> IF t = "main" THEN "start" ELSE "idle"]
    /\ mainIdx = 0
    /\ presses = 0
    /\ on_activated = [m \in 0..(N - 1) |-> FALSE]
    /\ seqPc = [m \in 0..(N - 1) |->
                  IF Mode(m).kind = "Sequence" THEN "wait" ELSE "none"]
    /\ seqPos = [m \in 0..(N - 1) |-> 0]
    /\ seqWrites = [m \in 0..(N - 1) |-> 0]
    /\ staleSets = [m \in 0..(N - 1) |-> 0]
    /\ exitInPause = [m \in 0..(N - 1) |-> FALSE]
    /\ lights = AMBER
    /\ is_active = FALSE
    /\ is_active_lock = "none"
    /\ on_updated = FALSE
    /\ lsnPc = IF HasUdp THEN "recv" ELSE "none"
    /\ lsnMsg = <<>>
    /\ toPc = IF HasUdp THEN "wait" ELSE "none"
    /\ calls = <<>>
    /\ pressedEarly = FALSE
    /\ lastValid = -1
    /\ lastValidInactive = FALSE
    /\ lastStore = "init"
    /\ fallbacks = 0

Init == InitWith(MixedLists, {RED_GREEN})
InitFixed == InitWith(FixedLists, {RED_GREEN})
InitUdp == InitWith(UdpLists, LightsValues)
InitSeq == InitWith(SeqLists, {RED_GREEN})

\* ---- ModesController ----
Call(op, m, t) == [op |-> op, mode |-> m, by |-> t]

\* where a thread continues after the enter() it called has returned
AfterEnter(t) == IF t = "main" THEN "done" ELSE "idle"

\* faulty variants of the index update: no increment; a step of two
NextIndexStuck(k, n) == k % n
NextIndexSkip(k, n) == (k + 2) % n

\* (self._i+1) % len(self._modes)
NextIndex(k, n) == (k + 1) % n

\* faulty variant: enter() pushes the caution value, not the last-known state
EnterLightsCaution == AMBER

\* UdpListenerMode.enter pushes self._lights
EnterLights == lights

\* modes[m].enter() called by thread t: FixedMode.enter, SequenceMode.enter,
\* and the first statement of UdpListenerMode.enter
ModeEnter(t, m) ==
    /\ calls' = Append(calls, Call("enter", m, t))
    /\ CASE Mode(m).kind = "Fixed" ->
              /\ traffic_light' = Set(Mode(m).lights)
              /\ lastSet' = Mode(m).lights
              /\ ctlPc' = [ctlPc EXCEPT ![t] = AfterEnter(t)]
              /\ UNCHANGED on_activated
         [] Mode(m).kind = "Sequence" ->
              /\ on_activated' = [on_activated EXCEPT ![m] = TRUE]
              /\ ctlPc' = [ctlPc EXCEPT ![t] = AfterEnter(t)]
              /\ UNCHANGED <<traffic_light, lastSet>>
         [] Mode(m).kind = "Udp" ->
              /\ traffic_light' = Set(EnterLights)
              /\ lastSet' = EnterLights
              /\ ctlPc' = [ctlPc EXCEPT ![t] = "enter_lock"]
              /\ UNCHANGED on_activated

\* modes[m].exit() called by thread t; UdpListenerMode.exit needs the lock
ModeExit(t, m) ==
    /\ calls' = Append(calls, Call("exit", m, t))
    /\ CASE Mode(m).kind = "Fixed" ->
              UNCHANGED <<on_activated, is_active, staleSets, exitInPause>>
         [] Mode(m).kind = "Sequence" ->
              /\ on_activated' = [on_activated EXCEPT ![m] = FALSE]
              /\ staleSets' = [staleSets EXCEPT ![m] =
                                 IF on_activated[m] THEN 0 ELSE staleSets[m]]
              /\ exitInPause' = [exitInPause EXCEPT ![m] =
                                   IF on_activated[m] THEN seqPc[m] = "sleep"
                                   ELSE exitInPause[m]]
              /\ UNCHANGED is_active
         [] Mode(m).kind = "Udp" ->
              /\ is_active_lock = "none"
              /\ is_active' = FALSE
              /\ UNCHANGED <<on_activated, staleSets, exitInPause>>

\* the button delivers a press: switch_mode starts on the callback thread
Press ==
    /\ ctlPc["button"] = "idle"
    /\ presses < MaxPresses
    /\ presses' = presses + 1
    /\ pressedEarly' = (pressedEarly \/ ctlPc["main"] # "done")
    /\ ctlPc' = [ctlPc EXCEPT !["button"] = "exit"]
    /\ UNCHANGED <<modes, i, mainIdx, calls, traffic_light, lastSet, cmd>>
    /\ UNCHANGED <<seqVars, udpVars, udpHist>>

\* switch_mode: self._modes[self._i].exit()
SwitchExit ==
    /\ ctlPc["button"] = "exit"
    /\ ModeExit("button", i)
    /\ ctlPc' = [ctlPc EXCEPT !["button"] = "inc"]
    /\ UNCHANGED <<modes, i, mainIdx, presses, pressedEarly, traffic_light, lastSet, cmd>>
    /\ UNCHANGED <<seqPc, seqPos, seqWrites>>
    /\ UNCHANGED <<lights, is_active_lock, on_updated, lsnPc, lsnMsg, toPc>>
    /\ UNCHANGED udpHist

\* switch_mode: self._i = (self._i+1) % len(self._modes)
SwitchInc ==
    /\ ctlPc["button"] = "inc"
    /\ i' = NextIndex(i, N)
    /\ ctlPc' = [ctlPc EXCEPT !["button"] = "enter"]
    /\ UNCHANGED <<modes, mainIdx, presses, calls, pressedEarly, traffic_light, lastSet, cmd>>
    /\ UNCHANGED <<seqVars, udpVars, udpHist>>

\* switch_mode: self._modes[self._i].enter()
SwitchEnter ==
    /\ ctlPc["button"] = "enter"
    /\ ModeEnter("button", i)
    /\ UNCHANGED <<modes, i, mainIdx, presses, pressedEarly, cmd>>
    /\ UNCHANGED <<seqPc, seqPos, seqWrites, staleSets, exitInPause>>
    /\ UNCHANGED <<udpVars, udpHist>>

\* start(): evaluates self._modes[self._i]
StartRead ==
    /\ ctlPc["main"] = "start"
    /\ mainIdx' = i
    /\ ctlPc' = [ctlPc EXCEPT !["main"] = "enter"]
    /\ UNCHANGED <<modes, i, presses, calls, pressedEarly, traffic_light, lastSet, cmd>>
    /\ UNCHANGED <<seqVars, udpVars, udpHist>>

\* start(): calls enter() on the mode it evaluated
StartEnter ==
    /\ ctlPc["main"] = "enter"
    /\ ModeEnter("main", mainIdx)
    /\ UNCHANGED <<modes, i, mainIdx, presses, pressedEarly, cmd>>
    /\ UNCHANGED <<seqPc, seqPos, seqWrites, staleSets, exitInPause>>
    /\ UNCHANGED <<udpVars, udpHist>>

NextCtl ==
    \/ Press
    \/ SwitchExit
    \/ SwitchInc
    \/ SwitchEnter
    \/ StartRead
    \/ StartEnter

SpecFixed == InitFixed /\ [][NextCtl]_vars

\* ---- UdpListenerMode ----
\* the datagrams recvfrom may return in a run: empty, the run's command,
\* and first bytes out of range
Datagrams == {<<>>, <<cmd>>, <<8>>, <<9>>}

\* faulty variant of the range test: upper bound off by one
InRangeWide(b) == NONE <= b /\ b <= ALL + 1

\* Lights.NONE.value <= msg[0] <= Lights.ALL.value
InRange(b) == NONE <= b /\ b <= ALL

\* Lights(b) returns a member iff b is the value of one
Decodable(b) == LightsByValue(b) # "ValueError"

\* a datagram the listener decodes and stores
Valid(msg) == Len(msg) > 0 /\ InRange(msg[1]) /\ Decodable(msg[1])

\* faulty variant of the gate: the flag is not consulted
UpdateGateOpen == TRUE

\* _update: the test `if self._is_active`
UpdateGate == is_active

\* UdpListenerMode.enter, second statement: with the lock, _is_active = True
EnterLock(t) ==
    /\ ctlPc[t] = "enter_lock"
    /\ is_active_lock = "none"
    /\ is_active' = TRUE
    /\ ctlPc' = [ctlPc EXCEPT ![t] = AfterEnter(t)]
    /\ UNCHANGED <<modes, i, mainIdx, presses, calls, pressedEarly, traffic_light, lastSet, cmd>>
    /\ UNCHANGED <<seqVars, lights, is_active_lock, on_updated, lsnPc, lsnMsg, toPc>>
    /\ lastValidInactive' = FALSE
    /\ UNCHANGED <<lastValid, lastStore, fallbacks>>

\* listener: msg, addr = self._sock.recvfrom(1024)
ListenerRecv ==
    /\ lsnPc = "recv"
    /\ \E msg \in Datagrams :
         /\ lsnMsg' = msg
         /\ IF Valid(msg)
            THEN /\ lastValid' = msg[1]
                 /\ lastValidInactive' = ~is_active
                 /\ fallbacks' = 0
            ELSE UNCHANGED <<lastValid, lastValidInactive, fallbacks>>
    /\ lsnPc' = "check"
    /\ UNCHANGED <<ctlVars, seqVars, traffic_light, lastSet, lastStore>>
    /\ UNCHANGED <<lights, is_active, is_active_lock, on_updated, toPc>>

\* listener: the range test on msg[0] and the call Lights(msg[0]); an
\* exception (IndexError on b'', ValueError) ends the thread
ListenerCheck ==
    /\ lsnPc = "check"
    /\ lsnPc' = IF Len(lsnMsg) = 0 THEN "dead"
                ELSE IF ~InRange(lsnMsg[1]) THEN "recv"
                ELSE IF ~Decodable(lsnMsg[1]) THEN "dead"
                ELSE "store"
    /\ UNCHANGED <<ctlVars, seqVars, traffic_light, lastSet, udpHist>>
    /\ UNCHANGED <<lights, is_active, is_active_lock, on_updated, lsnMsg, toPc>>

\* listener in _update: self._lights = lights
ListenerStore ==
    /\ lsnPc = "store"
    /\ lights' = ValueOf(LightsByValue(lsnMsg[1]))
    /\ lastStore' = "datagram"
    /\ lsnPc' = "lock"
    /\ UNCHANGED <<ctlVars, seqVars, traffic_light, lastSet>>
    /\ UNCHANGED <<is_active, is_active_lock, on_updated, lsnMsg, toPc>>
    /\ UNCHANGED <<lastValid, lastValidInactive, fallbacks>>

\* listener in _update: takes the lock and tests the flag
ListenerLock ==
    /\ lsnPc = "lock"
    /\ is_active_lock = "none"
    /\ IF UpdateGate
       THEN is_active_lock' = "listener" /\ lsnPc' = "set"
       ELSE is_active_lock' = "none" /\ lsnPc' = "signal"
    /\ UNCHANGED <<ctlVars, seqVars, traffic_light, lastSet, udpHist>>
    /\ UNCHANGED <<lights, is_active, on_updated, lsnMsg, toPc>>

\* listener in _update: self._traffic_light.set(self._lights), lock released
ListenerSet ==
    /\ lsnPc = "set"
    /\ traffic_light' = Set(lights)
    /\ lastSet' = lights
    /\ is_active_lock' = "none"
    /\ lsnPc' = "signal"
    /\ UNCHANGED <<ctlVars, seqVars, udpHist>>
    /\ UNCHANGED <<lights, is_active, on_updated, lsnMsg, toPc>>

\* listener: self._on_updated.set()
ListenerSignal ==
    /\ lsnPc = "signal"
    /\ on_updated' = TRUE
    /\ lsnPc' = "recv"
    /\ UNCHANGED <<ctlVars, seqVars, traffic_light, lastSet, udpHist>>
    /\ UNCHANGED <<lights, is_active, is_active_lock, lsnMsg, toPc>>

\* timeout thread: self._on_updated.wait(self._update_timeout) returns True
TimeoutSignaled ==
    /\ toPc = "wait"
    /\ on_updated
    /\ toPc' = "clear"
    /\ UNCHANGED <<ctlVars, seqVars, traffic_light, lastSet, udpHist>>
    /\ UNCHANGED <<lights, is_active, is_active_lock, on_updated, lsnPc, lsnMsg>>

\* timeout thread: the wait returns False, the window elapsed unsignaled
TimeoutElapsed ==
    /\ toPc = "wait"
    /\ ~on_updated
    /\ toPc' = "store"
    /\ UNCHANGED <<ctlVars, seqVars, traffic_light, lastSet, udpHist>>
    /\ UNCHANGED <<lights, is_active, is_active_lock, on_updated, lsnPc, lsnMsg>>

\* timeout thread: self._on_updated.clear()
TimeoutClear ==
    /\ toPc = "clear"
    /\ on_updated' = FALSE
    /\ toPc' = "wait"
    /\ UNCHANGED <<ctlVars, seqVars, traffic_light, lastSet, udpHist>>
    /\ UNCHANGED <<lights, is_active, is_active_lock, lsnPc, lsnMsg>>

\* timeout thread in _update(Lights.AMBER): self._lights = lights
TimeoutStore ==
    /\ toPc = "store"
    /\ lights' = AMBER
    /\ lastStore' = "fallback"
    /\ toPc' = "lock"
    /\ UNCHANGED <<ctlVars, seqVars, traffic_light, lastSet>>
    /\ UNCHANGED <<is_active, is_active_lock, on_updated, lsnPc, lsnMsg>>
    /\ UNCHANGED <<lastValid, lastValidInactive, fallbacks>>

\* timeout thread in _update: takes the lock and tests the flag
TimeoutLock ==
    /\ toPc = "lock"
    /\ is_active_lock = "none"
    /\ IF UpdateGate
       THEN is_active_lock' = "timeout" /\ toPc' = "set"
       ELSE is_active_lock' = "none" /\ toPc' = "wait_forever"
    /\ UNCHANGED <<ctlVars, seqVars, traffic_light, lastSet, udpHist>>
    /\ UNCHANGED <<lights, is_active, on_updated, lsnPc, lsnMsg>>

\* timeout thread in _update: self._traffic_light.set(self._lights)
TimeoutSet ==
    /\ toPc = "set"
    /\ traffic_light' = Set(lights)
    /\ lastSet' = lights
    /\ is_active_lock' = "none"
    /\ fallbacks' = fallbacks + 1
    /\ toPc' = "wait_forever"
    /\ UNCHANGED <<ctlVars, seqVars>>
    /\ UNCHANGED <<lights, is_active, on_updated, lsnPc, lsnMsg>>
    /\ UNCHANGED <<lastValid, lastValidInactive, lastStore>>

\* timeout thread: self._on_updated.wait() returns
TimeoutResume ==
    /\ toPc = "wait_forever"
    /\ on_updated
    /\ toPc' = "wait"
    /\ UNCHANGED <<ctlVars, seqVars, traffic_light, lastSet, udpHist>>
    /\ UNCHANGED <<lights, is_active, is_active_lock, on_updated, lsnPc, lsnMsg>>

NextUdp ==
    \/ EnterLock("main")
    \/ EnterLock("button")
    \/ ListenerRecv
    \/ ListenerCheck
    \/ ListenerStore
    \/ ListenerLock
    \/ ListenerSet
    \/ ListenerSignal
    \/ TimeoutSignaled
    \/ TimeoutElapsed
    \/ TimeoutClear
    \/ TimeoutStore
    \/ TimeoutLock
    \/ TimeoutSet
    \/ TimeoutResume

SpecUdp == InitUdp /\ [][NextCtl \/ NextUdp]_vars

\* ---- SequenceMode ----
\* random_sequence_lights yields Lights(random.randrange(len(Lights)))
RandomLights ==
    {ValueOf(LightsByValue(v)) :
        v \in {w \in 0..(Cardinality(LightsNames) - 1) : Decodable(w)}}

\* the lights the iterator of mode m may return on next(): looped_sequence
\* yields l[i], random_sequence_lights one of RandomLights
NextLights(m) ==
    IF Mode(m).gen = "looped"
    THEN {Mode(m).l[seqPos[m] + 1][1]}
    ELSE RandomLights

\* faulty variant: a step taken with the event clear restarts the sequence
NextPosRestart(m) ==
    IF Mode(m).gen = "looped" /\ on_activated[m]
    THEN (seqPos[m] + 1) % Len(Mode(m).l)
    ELSE 0

\* looped_sequence: i = (i+1) % len(l); the random generator has no position
NextPos(m) ==
    IF Mode(m).gen = "looped"
    THEN (seqPos[m] + 1) % Len(Mode(m).l)
    ELSE seqPos[m]

\* faulty variant of the worker's wait: it does not block on the event
ActivatedAlways(m) == TRUE

\* the condition self._on_activated.wait() blocks on: the event is set
Activated(m) == on_activated[m]

\* worker: self._on_activated.wait() returns True
SeqWake(m) ==
    /\ seqPc[m] = "wait"
    /\ Activated(m)
    /\ seqPc' = [seqPc EXCEPT ![m] = "step"]
    /\ UNCHANGED <<ctlVars, traffic_light, lastSet, on_activated, seqPos, udpVars, udpHist>>
    /\ UNCHANGED <<seqWrites, staleSets, exitInPause>>

\* worker: lights, interval = next(iterator); self._traffic_light.set(lights)
SeqStep(m) ==
    /\ seqPc[m] = "step"
    /\ \E v \in NextLights(m) : traffic_light' = Set(v) /\ lastSet' = v
    /\ seqPos' = [seqPos EXCEPT ![m] = NextPos(m)]
    /\ seqPc' = [seqPc EXCEPT ![m] = "sleep"]
    /\ seqWrites' = [seqWrites EXCEPT ![m] =
                       IF Mode(m).gen = "looped"
                       THEN (seqWrites[m] + 1) % Len(Mode(m).l) ELSE 0]
    /\ staleSets' = [staleSets EXCEPT ![m] =
                       IF on_activated[m] THEN staleSets[m]
                       ELSE IF staleSets[m] < 2 THEN staleSets[m] + 1 ELSE 2]
    /\ UNCHANGED <<ctlVars, on_activated, exitInPause, udpVars, udpHist>>

\* worker: sleep(interval) returns
SeqSleep(m) ==
    /\ seqPc[m] = "sleep"
    /\ seqPc' = [seqPc EXCEPT ![m] = "wait"]
    /\ UNCHANGED <<ctlVars, traffic_light, lastSet, on_activated, seqPos, udpVars, udpHist>>
    /\ UNCHANGED <<seqWrites, staleSets, exitInPause>>

NextSeq ==
    \E m \in 0..(N - 1) :
        \/ SeqWake(m)
        \/ SeqStep(m)
        \/ SeqSleep(m)

SpecSeq == InitSeq /\ [][NextCtl \/ NextSeq]_vars

Next == NextCtl \/ NextUdp \/ NextSeq

Spec == Init /\ [][Next]_vars

\* ======================= properties =======================

\* what the fixture shows for a Lights value: bit 2 red, bit 1 amber, bit 0 green
Shows(v) ==
    [red   |-> v \in {RED, RED_GREEN, RED_AMBER, ALL},
     amber |-> v \in {AMBER, AMBER_GREEN, RED_AMBER, ALL},
     green |-> v \in {GREEN, AMBER_GREEN, RED_GREEN, ALL}]

\* a mode is active when the last enter()/exit() call made on it is an enter()
CallsOn(m) == {k \in 1..Len(calls) : calls[k].mode = m}
Last(S) == CHOOSE k \in S : \A j \in S : j <= k
Active(m) == CallsOn(m) # {} /\ calls[Last(CallsOn(m))].op = "enter"
ActiveModes == {m \in 0..(N - 1) : Active(m)}

IsByButton(c) == c.by = "button"
ButtonCalls == SelectSeq(calls, IsByButton)
Started == ctlPc["main"] = "done"
Settled == Started /\ ctlPc["button"] = "idle"

\* C1: after start() has returned, at the instants when no advance is in
\* progress (the instants most favourable to the claim), exactly one mode of
\* the list is active.
C1_ExactlyOneActive == Settled => Cardinality(ActiveModes) = 1

\* C2: the calls switch_mode makes come in pairs, exit() of modes[i] and then
\* enter() of modes[(i+1) mod N], the exit() made before the enter() begins,
\* each advance leaving from the mode the previous one entered, and the
\* index stays in [0, N).
C2_AdvanceOrder ==
    /\ i \in 0..(N - 1)
    /\ \A k \in 1..Len(ButtonCalls) :
         IF k % 2 = 1
         THEN /\ ButtonCalls[k].op = "exit"
              /\ ButtonCalls[k].mode = (IF k = 1 THEN 0 ELSE ButtonCalls[k - 1].mode)
         ELSE /\ ButtonCalls[k].op = "enter"
              /\ ButtonCalls[k].mode = (ButtonCalls[k - 1].mode + 1) % N
    /\ ctlPc["button"] \in {"inc", "enter"} <=> Len(ButtonCalls) % 2 = 1
    /\ ctlPc["button"] = "inc" => i = ButtonCalls[Len(ButtonCalls)].mode
    /\ ctlPc["button"] = "enter" => i = (ButtonCalls[Len(ButtonCalls)].mode + 1) % N

\* two full advances have been made over a list of at least two modes
C2_Witness ==
    /\ N >= 2
    /\ Len(ButtonCalls) >= 4
    /\ ctlPc["button"] = "idle"

\* C3: the k-th advance enters modes[k mod N], so N advances from index 0
\* enter 1, 2, ..., N-1, 0 in that order, each index once, and after N
\* advances the index is 0 again.
C3_CycleOrder ==
    /\ \A k \in 1..(Len(ButtonCalls) \div 2) : ButtonCalls[2 * k].mode = k % N
    /\ ctlPc["button"] = "idle" => i = presses % N
    /\ (ctlPc["button"] = "idle" /\ presses = N) =>
         /\ i = 0
         /\ {ButtonCalls[2 * k].mode : k \in 1..N} = 0..(N - 1)

\* N advances over a list of three modes have completed
C3_Witness ==
    /\ N = 3
    /\ presses = N
    /\ ctlPc["button"] = "idle"
    /\ Len(ButtonCalls) = 2 * N

\* C4: the enter() that start() makes is on modes[0], and no exit() on any
\* mode was made before it.
C4_StartEntersFirst ==
    \A k \in 1..Len(calls) :
        calls[k].by = "main" =>
            /\ calls[k].mode = 0
            /\ \A j \in 1..(k - 1) : calls[j].op # "exit"

\* C5: for a list of Fixed modes, once start() has returned and k advances
\* that followed it have completed, the fixture shows the lights of
\* modes[k mod N] (k = 0: the lights of modes[0]).
C5_FixedOutput ==
    (/\ \A m \in 0..(N - 1) : Mode(m).kind = "Fixed"
     /\ Settled
     /\ ~pressedEarly)
    => traffic_light = Shows(Mode(presses % N).lights)

\* [Fixed(ALL), Fixed(NONE)] after start() and three advances
C5_Witness ==
    /\ modes = <<Fixed(ALL), Fixed(NONE)>>
    /\ Settled
    /\ ~pressedEarly
    /\ presses = 3
    /\ traffic_light = Shows(NONE)

\* ---- UdpListenerMode properties ----
UdpIdx == CHOOSE m \in 0..(N - 1) : Mode(m).kind = "Udp"

\* a thread executes the first statement of UdpListenerMode.enter
UdpEnterStep ==
    \E t \in {"main", "button"} : ctlPc[t] = "enter" /\ ctlPc'[t] = "enter_lock"

\* the listener has stored the value of the last valid datagram it received
ListenerStored == lastValid # -1 /\ lsnPc \notin {"check", "store"}

\* C6: within one silence period (since the last valid datagram was received)
\* the timeout monitor writes the fallback to the output at most once.
C6_FallbackOncePerSilence == fallbacks <= 1

\* C7 as stated: when the last valid datagram, carrying v, was received and
\* stored while the mode was inactive, the next enter() outputs v.
C7_ReentryShowsLastDatagram ==
    [][(UdpEnterStep /\ lastValidInactive /\ ListenerStored)
         => traffic_light' = Shows(lastValid)]_vars

\* C7 amended: in that case the next enter() outputs the last-known state:
\* v, unless the timeout monitor has forced its fallback since the datagram
\* was stored, and then AMBER.
C7_ReentryShowsLastKnown ==
    [][(UdpEnterStep /\ lastValidInactive /\ ListenerStored)
         => traffic_light' =
              Shows(IF lastStore = "fallback" THEN AMBER ELSE lastValid)]_vars

\* the button re-enters the mode after RED_GREEN arrived while it was
\* inactive, and the fixture shows RED_GREEN before the flag is set
C7_Witness ==
    /\ ctlPc["button"] = "enter_lock"
    /\ ~pressedEarly
    /\ lastValidInactive
    /\ ListenerStored
    /\ lastValid = RED_GREEN
    /\ lastStore = "datagram"
    /\ ~is_active
    /\ traffic_light = Shows(RED_GREEN)

\* C8: the listener's handling of a datagram whose first byte is outside
\* 0..7 takes it back to recvfrom and changes neither the last-known state,
\* nor the output, nor the 'updated' event, nor the timeout monitor.
C8_InvalidDatagramIgnored ==
    [][(/\ lsnPc = "check"
        /\ lsnPc' # "check"
        /\ Len(lsnMsg) > 0
        /\ lsnMsg[1] \notin 0..7)
       => /\ lsnPc' = "recv"
          /\ UNCHANGED <<lights, traffic_light, on_updated, toPc, is_active>>]_vars

\* byte 9 was discarded while the mode is active and the monitor is blocked
\* in fallback: the monitor stays blocked and the listener receives again
C8_Witness ==
    /\ lsnPc = "recv"
    /\ lsnMsg = <<9>>
    /\ is_active
    /\ toPc = "wait_forever"
    /\ ~on_updated
    /\ lights = AMBER

\* C9: the listener thread never ends, whatever datagrams it receives.
C9_ReceiverKeepsRunning == lsnPc # "dead"

\* the last call made on the network mode is an exit() and no enter() of it
\* is in progress
Exited ==
    /\ CallsOn(UdpIdx) # {}
    /\ calls[Last(CallsOn(UdpIdx))].op = "exit"
    /\ \A t \in {"main", "button"} : ctlPc[t] # "enter_lock"

\* a watchdog worker executes self._traffic_light.set in _update
WorkerSetStep ==
    \/ lsnPc = "set" /\ lsnPc' # "set"
    \/ toPc = "set" /\ toPc' # "set"

\* a thread executes UdpListenerMode.exit
UdpExitStep ==
    /\ Len(calls') = Len(calls) + 1
    /\ calls'[Len(calls')].op = "exit"
    /\ calls'[Len(calls')].mode = UdpIdx

\* a thread executes the locked assignment of UdpListenerMode.enter
EnterLockStep ==
    \E t \in {"main", "button"} : ctlPc[t] = "enter_lock" /\ ctlPc'[t] # "enter_lock"

\* C10: a watchdog worker writes to the output only with the activation
\* flag true, holding the lock, so that the flag is still true when the
\* write is done; exit() leaves the flag false and only an enter() sets it
\* again, so no worker writes from the return of exit() until an enter()
\* has set the flag; the workers store the last-known state whatever the
\* flag is.
C10_OutputGated ==
    [][/\ WorkerSetStep => (is_active /\ is_active')
       /\ UdpExitStep => ~is_active'
       /\ (~is_active /\ is_active') => EnterLockStep
       /\ (lsnPc = "store" /\ lsnPc' # "store") => lights' = lsnMsg[1]
       /\ (toPc = "store" /\ toPc' # "store") => lights' = AMBER]_vars

\* after exit() the listener stored RED_GREEN and went on to signal without
\* writing: the fixture still shows the Fixed mode's lights
C10_Witness ==
    /\ Exited
    /\ ~pressedEarly
    /\ ~is_active
    /\ lsnPc = "signal"
    /\ lights = RED_GREEN
    /\ lastStore = "datagram"
    /\ traffic_light = Shows(ALL)

\* ---- claims about all the modes of a controller ----

\* the worker of Sequence mode m executes self._traffic_light.set
SeqSetStep(m) == seqPc[m] = "step" /\ seqPc'[m] = "sleep"

\* C11: a worker writes to the output only on behalf of the active mode: in
\* the runs without a press during start(), a Sequence worker's set call is
\* made while its mode is active (entered and not exited since), and so is a
\* watchdog worker's.
C11_WritesOnlyByActiveMode ==
    [][~pressedEarly =>
         /\ \A m \in 0..(N - 1) : SeqSetStep(m) => Active(m)
         /\ WorkerSetStep => Active(UdpIdx)]_vars

\* the network mode is the current, active mode and nothing is in progress:
\* start() has returned with no press during it, no advance is running, the
\* listener is blocked in recvfrom (or has ended) and the timeout monitor is
\* blocked in its untimed wait with the event clear. With no further
\* datagram and no press, the program stays in this state for ever.
SilentForGood ==
    /\ Settled
    /\ ~pressedEarly
    /\ Mode(i).kind = "Udp"
    /\ is_active
    /\ is_active_lock = "none"
    /\ lsnPc \in {"recv", "dead"}
    /\ toPc = "wait_forever"
    /\ ~on_updated

\* C12: silence recovery. A silent run with the mode active ends in the
\* state SilentForGood and stays there, so the claim requires that in that
\* state the fixture shows AMBER and the last-known state is AMBER.
C12_SilenceEndsInCaution ==
    SilentForGood => (traffic_light = Shows(AMBER) /\ lights = AMBER)

\* the values a byte of a datagram can have
ByteValues == 0..255

\* decoding and re-encoding, for every byte value: Lights(v).value = v for v
\* in 0..7 and Lights(v) yields no member for any other v; the values the
\* sequence generators are built from are values of members
DecodeRoundTrip ==
    /\ \A v \in 0..7 :
         LightsByValue(v) # "ValueError" /\ ValueOf(LightsByValue(v)) = v
    /\ \A v \in ByteValues \ (0..7) : LightsByValue(v) = "ValueError"
    /\ \A v \in ByteValues : Valid(<<v>>) <=> v \in 0..7
    /\ RandomLights \subseteq 0..7
    /\ \A k \in 1..Len(ShortLoop) : ShortLoop[k][1] \in 0..7

\* C13: decoding v in 0..7 and re-encoding yields v and no other byte
\* decodes; the listener takes only bytes in 0..7 to _update and what it has
\* stored for byte v is v; the last-known state and every value passed to
\* TrafficLight.set are in 0..7.
C13_DecodeAndRange ==
    /\ DecodeRoundTrip
    /\ lsnPc \in {"store", "lock", "set", "signal"} => lsnMsg[1] \in 0..7
    /\ (lsnPc = "lock" /\ lastStore = "datagram") => lights = lsnMsg[1]
    /\ lights \in 0..7
    /\ lastSet \in (0..7) \cup {-1}

\* the listener has just stored RED_AMBER from a datagram, the mode being
\* active and showing the value of an earlier write
C13_Witness ==
    /\ lsnPc = "lock"
    /\ lsnMsg = <<RED_AMBER>>
    /\ lastStore = "datagram"
    /\ lights = RED_AMBER
    /\ is_active
    /\ lastSet = AMBER

\* what set makes of each value 0..7, against the bits of the value
SetExtractsBits ==
    \A v \in 0..7 :
        /\ Set(v).red <=> (v \div 4) % 2 = 1
        /\ Set(v).amber <=> (v \div 2) % 2 = 1
        /\ Set(v).green <=> v % 2 = 1

\* C14: after TrafficLight.set(v), for every v in 0..7, the red LED is lit
\* iff bit 2 of v is set, the amber LED iff bit 1, the green LED iff bit 0:
\* as a function, and in every state for the value last passed to set.
C14_SetBits ==
    /\ SetExtractsBits
    /\ lastSet # -1 => traffic_light = Shows(lastSet)
    /\ lastSet = -1 => traffic_light = LedsOff

\* the listener has written RED_GREEN: red and green lit, amber dark
C14_Witness ==
    /\ lastSet = RED_GREEN
    /\ lsnPc = "signal"
    /\ is_active
    /\ traffic_light = [red |-> TRUE, amber |-> FALSE, green |-> TRUE]

\* a thread is inside enter(), between its set call and its locked assignment
EnterBetweenPushAndFlag ==
    \E t \in {"main", "button"} : ctlPc[t] = "enter_lock" /\ ctlPc'[t] = "enter_lock"

\* a watchdog worker executes the locked test of _update
WorkerLockStep ==
    \/ lsnPc = "lock" /\ lsnPc' # "lock"
    \/ toPc = "lock" /\ toPc' # "lock"

\* C15: enter()'s push and its setting of the flag are one critical section
\* under the lock of _update: while a thread is between the two, no worker
\* passes the locked test of _update and the last-known state does not
\* change.
C15_EnterIsOneCriticalSection ==
    [][EnterBetweenPushAndFlag => (~WorkerLockStep /\ lights' = lights)]_vars

\* ---- SequenceMode properties ----
SeqIdx == {m \in 0..(N - 1) : Mode(m).kind = "Sequence"}

\* C16: the worker tests the event only in wait(), before it pulls a step,
\* so with the event clear since the exit() that cleared it the worker makes
\* at most one set call, and none when that exit() came during the pause.
C16_AtMostOneStaleSet ==
    \A m \in SeqIdx :
        /\ staleSets[m] <= 1
        /\ exitInPause[m] => staleSets[m] = 0
        /\ seqPc[m] = "step" => (on_activated[m] \/ staleSets[m] = 0)

\* three advances over [Sequence, Fixed, Sequence]: the first mode was left
\* after its worker had passed wait() and the worker wrote once more; the
\* third was left during the pause and its worker is blocked in wait() again
\* without having written
C16_Witness ==
    /\ N = 3
    /\ ~pressedEarly
    /\ presses = 3
    /\ staleSets[0] = 1
    /\ exitInPause[2]
    /\ staleSets[2] = 0
    /\ seqPc[2] = "wait"
    /\ ~on_activated[2]

\* C17: the k-th set call of the worker of a looped sequence over l carries
\* the lights of l[k mod len(l)], k counted from 0 over the whole run,
\* whatever enter() and exit() calls come in between; the position the
\* generator holds is the number of calls made, modulo len(l).
C17_LoopedOrder ==
    [][\A m \in SeqIdx :
         (Mode(m).gen = "looped" /\ SeqSetStep(m)) =>
            /\ lastSet' = Mode(m).l[(seqWrites[m] % Len(Mode(m).l)) + 1][1]
            /\ traffic_light' = Shows(lastSet')
            /\ seqPos'[m] = seqWrites'[m]]_vars

\* the worker of the three-step loop has written a whole round, the last
\* of its steps after its mode was left, and the mode has been entered again
C17_Witness ==
    /\ N = 3
    /\ Mode(0).gen = "looped"
    /\ ~pressedEarly
    /\ presses = 3
    /\ staleSets[0] = 1
    /\ seqWrites[0] = 0
    /\ seqPc[0] = "sleep"
    /\ lastSet = GREEN
    /\ on_activated[0]

\* the timeout monitor executes the store of _update(Lights.AMBER)
TimeoutStoreStep == toPc = "store" /\ toPc' # "store"

\* the listener has stored the state of a valid datagram and has not yet
\* set the 'updated' event for it
StoredNotSignaled == lsnPc \in {"lock", "set", "signal"}

\* C18: the timeout monitor does not force the last-known state to AMBER
\* between the listener's store of a valid datagram's state and the
\* listener's setting of the 'updated' event for that datagram.
C18_NoFallbackOverFreshCommand ==
    [][TimeoutStoreStep => ~StoredNotSignaled]_vars

\* only the network mode has been entered or left so far, so it is the only
\* writer of the output
OnlyUdpCalled == \A k \in 1..Len(calls) : calls[k].mode = UdpIdx

\* no thread is inside enter() or inside _update
NoneMidEnterOrUpdate ==
    /\ \A t \in {"main", "button"} : ctlPc[t] # "enter_lock"
    /\ lsnPc \notin {"lock", "set"}
    /\ toPc \notin {"lock", "set"}

\* C19: with the network mode the only writer, whenever it is active and no
\* thread is inside enter() or _update, the value last written to the
\* output is the last-known state.
C19_OutputIsLastKnown ==
    (OnlyUdpCalled /\ is_active /\ NoneMidEnterOrUpdate) => lastSet = lights

\* C20: whenever a Fixed mode is the current mode and its enter() has
\* returned, and until the next advance begins, the fixture shows that
\* mode's lights, whatever the workers of the modes entered before it do;
\* stated for the runs without a press during start().
C20_FixedHoldsOutput ==
    (Settled /\ ~pressedEarly /\ Mode(i).kind = "Fixed")
    => traffic_light = Shows(Mode(i).lights)

====
